---- MODULE Spec2Model ----
(***************************************************************************)
(* Model of the requirement agent: src/src/requirement_agent.py,           *)
(* src/src/ai_processor.py and the runner src/data/scripts/run.py.         *)
(*                                                                         *)
(* Text is a sequence of fragments (strings that are never split further). *)
(* Whitespace is explicit: " " and "\n" are fragments of their own, so     *)
(* Python's split / strip / startswith / replace / lower / `in` act on     *)
(* fragment sequences exactly as they act on the characters.               *)
(***************************************************************************)
EXTENDS Integers, Sequences, FiniteSets, TLC

\* ------------------------------------------------------------------ bounds
MaxThreads == 2
MaxEmails == 2
MaxRuns == 2

\* ------------------------------------------------------------------ text
NL == "\n"
SP == " "
Whitespace == {SP, NL}
None == <<"<None>">>

RECURSIVE LStrip(_)
LStrip(s) ==
  IF s # <<>> /\ Head(s) \in Whitespace THEN LStrip(Tail(s)) ELSE s

RECURSIVE RStrip(_)
RStrip(s) ==
  IF s # <<>> /\ s[Len(s)] \in Whitespace THEN RStrip(SubSeq(s, 1, Len(s) - 1)) ELSE s

\* str.strip()
Strip(s) == RStrip(LStrip(s))

\* s[i:].startswith(sep)
StartsAt(s, i, sep) ==
  /\ i + Len(sep) - 1 <= Len(s)
  /\ \A k \in 1..Len(sep) : s[i + k - 1] = sep[k]

\* str.find(sep) + 1, 0 when sep does not occur
Find(s, sep) ==
  LET hits == {i \in 1..Len(s) : StartsAt(s, i, sep)}
  IN IF hits = {} THEN 0 ELSE CHOOSE i \in hits : \A j \in hits : i <= j

\* sep in s
Contains(s, sep) == Find(s, sep) # 0

\* str.split(sep): leftmost, non-overlapping occurrences
RECURSIVE Split(_, _)
Split(s, sep) ==
  LET i == Find(s, sep)
  IN IF i = 0 THEN <<s>>
     ELSE <<SubSeq(s, 1, i - 1)>> \o Split(SubSeq(s, i + Len(sep), Len(s)), sep)

\* str.replace(tok, '') for a one-fragment token
Remove(s, tok) == SelectSeq(s, LAMBDA x : x # tok)

\* sep.join(parts)
RECURSIVE Join(_, _)
Join(parts, sep) ==
  IF parts = <<>> THEN <<>>
  ELSE IF Len(parts) = 1 THEN parts[1]
  ELSE parts[1] \o sep \o Join(Tail(parts), sep)

LowerFrag(x) ==
  CASE x = "API" -> "api"
    [] x = "Should" -> "should"
    [] x = "REQUIREMENT" -> "requirement"
    [] OTHER -> x

\* str.lower()
Lower(s) == [i \in 1..Len(s) |-> LowerFrag(s[i])]

\* dict.get(key) and dict.get(key, default)
Get(d, k) == IF k \in DOMAIN d THEN d[k] ELSE None
GetOr(d, k, default) == IF k \in DOMAIN d THEN d[k] ELSE default

\* d[k] = v on a dict
Put(d, k, v) == [x \in DOMAIN d \cup {k} |-> IF x = k THEN v ELSE d[x]]

EmptyDict == [x \in {} |-> <<>>]

\* ------------------------------------------------------------------ parser
THREAD_MARK == <<"THREAD_ID: ">>
EMAIL_MARK == <<"---", NL>>

\* The for-loop of _parse_single_email over the non-blank lines; st is
\* [email_data, body_lines, parsing_body].
RECURSIVE ParseLines(_, _)
ParseLines(lines, st) ==
  IF lines = <<>> THEN st
  ELSE
    LET line == Head(lines)
        nxt ==
          IF StartsAt(line, 1, <<"From:">>)
            THEN [st EXCEPT !.email_data = Put(@, "from", Strip(Remove(line, "From:")))]
          ELSE IF StartsAt(line, 1, <<"To:">>)
            THEN [st EXCEPT !.email_data = Put(@, "to", Strip(Remove(line, "To:")))]
          ELSE IF StartsAt(line, 1, <<"Date:">>)
            THEN [st EXCEPT !.email_data = Put(@, "date", Strip(Remove(line, "Date:")))]
          ELSE IF StartsAt(line, 1, <<"Subject:">>)
            THEN [st EXCEPT !.email_data = Put(@, "subject", Strip(Remove(line, "Subject:"))),
                            !.parsing_body = TRUE]
          ELSE IF st.parsing_body /\ Strip(line) # <<"---">>
            THEN [st EXCEPT !.body_lines = Append(@, Strip(line))]
          ELSE st
    IN ParseLines(Tail(lines), nxt)

_parse_single_email(email_text) ==
  LET lines == SelectSeq(Split(email_text, <<NL>>), LAMBDA l : Strip(l) # <<>>)
      st == ParseLines(lines, [email_data |-> EmptyDict, body_lines |-> <<>>,
                               parsing_body |-> FALSE])
  IN Put(st.email_data, "body", Join(st.body_lines, <<NL>>))

\* if email_data: a dict is truthy when it has a key
Truthy(d) == DOMAIN d # {}

\* The inner loop of parse_email_file over the email parts of one block.
RECURSIVE ParseParts(_)
ParseParts(parts) ==
  IF parts = <<>> THEN <<>>
  ELSE
    LET part == Head(parts)
        rest == ParseParts(Tail(parts))
    IN IF Strip(part) = <<>> THEN rest
       ELSE LET email_data == _parse_single_email(part)
            IN IF Truthy(email_data) THEN <<email_data>> \o rest ELSE rest

\* The parser without its `if emails:` guard.
KeepThreadAlways(emails) == TRUE

\* if emails: threads.append(...)
KeepThread(emails) == emails # <<>>

ParseBlock(block) ==
  LET lines == Split(Strip(block), <<NL>>)
      thread_id == Strip(lines[1])
      emails == ParseParts(Tail(Split(block, EMAIL_MARK)))
  IN IF KeepThread(emails)
       THEN <<[thread_id |-> thread_id, emails |-> emails]>>
       ELSE <<>>

RECURSIVE ParseBlocks(_)
ParseBlocks(blocks) ==
  IF blocks = <<>> THEN <<>>
  ELSE ParseBlock(Head(blocks)) \o ParseBlocks(Tail(blocks))

parse_email_file(content) == ParseBlocks(Tail(Split(content, THREAD_MARK)))

\* ------------------------------------------------------------------ classifier
REQUIREMENT == <<"requirement">>
GENERAL == <<"general">>

\* requirement_keywords of is_requirement_thread_keyword; 'requirement' is
\* written as two fragments because 'require' is a substring of it.
requirement_keywords ==
  << <<"require", "ment">>, <<"need">>, <<"feature">>, <<"functionality">>,
     <<"system">>, <<"integration">>, <<"users">>, <<"deployment">>,
     <<"timeline">>, <<"alert">>, <<"notification">>, <<"access">>,
     <<"permission">>, <<"tracking">>, <<"audit">>, <<"compliance">>,
     <<"dashboard">>, <<"report">>, <<"api">>, <<"database">>,
     <<"authentication">>, <<"security">>, <<"performance">>,
     <<"scalability">>, <<"interface">>, <<"workflow">> >>

\* any(keyword in text for keyword in keywords)
AnyKeywordIn(keywords, text) ==
  \E k \in 1..Len(keywords) : Contains(text, keywords[k])

\* text = (email.get('subject', '') + ' ' + email.get('body', '')).lower()
EmailText(email) ==
  Lower(GetOr(email, "subject", <<>>) \o <<SP>> \o GetOr(email, "body", <<>>))

\* The check looking at the first email only.
KeywordLoopFirstOnly(emails) ==
  emails # <<>> /\ AnyKeywordIn(requirement_keywords, EmailText(Head(emails)))

\* The for-loop with its early return True.
RECURSIVE KeywordLoop(_)
KeywordLoop(emails) ==
  IF emails = <<>> THEN FALSE
  ELSE IF AnyKeywordIn(requirement_keywords, EmailText(Head(emails))) THEN TRUE
  ELSE KeywordLoop(Tail(emails))

is_requirement_thread_keyword(thread) == KeywordLoop(thread.emails)

\* What the chat-completions call of the collaborator does: it raises, or it
\* answers with a text.
APIError == <<"<APIError>">>
NotCalled == <<"<not called>">>
ClassifyReplies ==
  {APIError, <<"REQUIREMENT", NL>>, <<"general">>, <<"maybe">>}
ExtractReplies == {APIError, <<SP, "1.", SP, "sso", NL>>}
MODEL_NAME == <<"gpt-4">>

Returned(v) == [raised |-> FALSE, value |-> v]

\* AIEmailProcessor.classify_email_thread: the try block and its except.
classify_email_thread(thread, reply) ==
  IF reply = APIError THEN Returned(GENERAL)
  ELSE LET classification == Lower(Strip(reply))
       IN Returned(IF classification \in {REQUIREMENT, GENERAL}
                     THEN classification ELSE GENERAL)

KeywordCategory(thread) ==
  IF is_requirement_thread_keyword(thread) THEN REQUIREMENT ELSE GENERAL

\* RequirementAgent.classify_thread
classify_thread(use_ai, thread, reply) ==
  IF use_ai
    THEN LET r == classify_email_thread(thread, reply)
         IN IF r.raised THEN KeywordCategory(thread) ELSE r.value
    ELSE KeywordCategory(thread)

\* ------------------------------------------------------------------ extractor
extraction_keywords == << <<"need">>, <<"require">>, <<"should">>, <<"must">> >>

RECURSIVE _extract_requirements_basic_loop(_)
_extract_requirements_basic_loop(emails) ==
  IF emails = <<>> THEN <<>>
  ELSE
    LET email == Head(emails)
        body == GetOr(email, "body", <<>>)
        rest == _extract_requirements_basic_loop(Tail(emails))
    IN IF AnyKeywordIn(extraction_keywords, Lower(body))
         THEN <<[text |-> body, from |-> Get(email, "from"),
                 date |-> Get(email, "date"),
                 extraction_method |-> "keyword"]>> \o rest
         ELSE rest

_extract_requirements_basic(thread) == _extract_requirements_basic_loop(thread.emails)

\* AIEmailProcessor.extract_requirements: the try block and its except.
ai_extract_requirements(thread, reply) ==
  IF reply = APIError THEN Returned(<<>>)
  ELSE Returned(<<[extracted_requirements |-> Strip(reply),
                   extraction_method |-> "AI",
                   model_used |-> MODEL_NAME]>>)

\* RequirementAgent.extract_requirements
extract_requirements(use_ai, thread, reply) ==
  IF use_ai
    THEN LET r == ai_extract_requirements(thread, reply)
         IN IF r.raised THEN _extract_requirements_basic(thread) ELSE r.value
    ELSE _extract_requirements_basic(thread)

\* ------------------------------------------------------------------ store
\* 'classification_method': 'AI' if self.use_ai else 'keyword'
ClassificationMethod(use_ai) == IF use_ai THEN "AI" ELSE "keyword"

\* The document store_requirement_thread prepares.
Document(use_ai, thread, requirements, now) ==
  LET emails == thread.emails
  IN [thread_id |-> thread.thread_id,
      category |-> "requirement",
      emails |-> emails,
      email_count |-> Len(emails),
      requirements |-> requirements,
      metadata |->
        [client |-> IF emails # <<>> THEN Get(emails[1], "from") ELSE None,
         subject |-> IF emails # <<>> THEN Get(emails[1], "subject") ELSE None,
         first_date |-> IF emails # <<>> THEN Get(emails[1], "date") ELSE None,
         last_date |-> IF emails # <<>> THEN Get(emails[Len(emails)], "date") ELSE None],
      created_at |-> now,
      classification_method |-> ClassificationMethod(use_ai)]

\* An update that writes only the fields the stored document lacks.
SetMissingFields(old, document) ==
  [f \in DOMAIN old \cup DOMAIN document |->
     IF f \in DOMAIN old THEN old[f] ELSE document[f]]

\* {'$set': document} applied to a stored document
SetFields(old, document) ==
  [f \in DOMAIN old \cup DOMAIN document |->
     IF f \in DOMAIN document THEN document[f] ELSE old[f]]

\* insert_one(document) in the place of the upsert.
insert_one(collection, thread_id, document) ==
  [collection |-> Append(collection, SetFields([thread_id |-> thread_id], document)),
   upserted |-> TRUE]

\* collection.update_one({'thread_id': id}, {'$set': document}, upsert=True):
\* the first document matching the filter is updated, and one is inserted
\* when none matches. upserted tells which.
update_one(collection, thread_id, document) ==
  LET hits == {i \in 1..Len(collection) : collection[i].thread_id = thread_id}
  IN IF hits = {}
       THEN [collection |-> Append(collection, SetFields([thread_id |-> thread_id], document)),
             upserted |-> TRUE]
       ELSE LET i == CHOOSE i \in hits : \A j \in hits : i <= j
            IN [collection |-> [collection EXCEPT ![i] = SetFields(@, document)],
                upserted |-> FALSE]

\* A store_requirement_thread that skips nothing.
SkipsNothing(category) == FALSE

\* if category != 'requirement': ... return False
Skips(category) == category # REQUIREMENT

\* RequirementAgent.store_requirement_thread, given what the collaborators
\* answer (clsReply, extReply) and whether the upsert goes through (dbOk).
\* raised: the upsert's exception leaves the method.
store_requirement_thread(collection, use_ai, thread, clsReply, extReply, dbOk, now) ==
  LET category == classify_thread(use_ai, thread, clsReply)
      cls == IF use_ai THEN clsReply ELSE NotCalled
  IN IF Skips(category)
       THEN [raised |-> FALSE, returned |-> FALSE, collection |-> collection,
             category |-> category, requirements |-> <<>>,
             cls |-> cls, ext |-> NotCalled, ups |-> "none"]
       ELSE
         LET requirements == extract_requirements(use_ai, thread, extReply)
             document == Document(use_ai, thread, requirements, now)
             ext == IF use_ai THEN extReply ELSE NotCalled
         IN IF ~dbOk
              THEN [raised |-> TRUE, returned |-> FALSE, collection |-> collection,
                    category |-> category, requirements |-> requirements,
                    cls |-> cls, ext |-> ext, ups |-> "failed"]
              ELSE LET res == update_one(collection, thread.thread_id, document)
                   IN [raised |-> FALSE, returned |-> TRUE,
                       collection |-> res.collection,
                       category |-> category, requirements |-> requirements,
                       cls |-> cls, ext |-> ext,
                       ups |-> IF res.upserted THEN "stored" ELSE "updated"]

\* ------------------------------------------------------------------ input files
\* An input file is written block by block: a thread block is the thread
\* marker, the id, and one email separator line before each email segment.
SegBlank == <<SP, NL, NL>>
SegReq ==
  <<"From:", SP, "alice", NL, "To:", SP, "bob", NL, "Date:", SP, "mon", NL,
    "Subject:", SP, "API", "s", NL, "we", SP, "Should", SP, "ship", NL, NL>>
SegGen == <<"Subject:", SP, "hi", NL, "happy", SP, "holidays", NL>>
SegTimeline ==
  <<"From:", SP, "carol", NL, "Date:", SP, "tue", NL, "Subject:", SP, "plan", NL,
    "the", SP, "deployment", SP, "timeline", NL>>

IDs == {"A", "B"}
WideSegments == {SegBlank, SegReq, SegGen}
DeepSegments == {SegBlank, SegReq, SegGen, SegTimeline}
RerunSegments == {SegReq, SegGen}

SeqsUpTo(n, S) == UNION {[1..k -> S] : k \in 0..n}
BlocksOf(ids, segss) == {[id |-> i, segs |-> ss] : i \in ids, ss \in segss}

\* Files of up to MaxThreads blocks of at most one segment each, and files of
\* one block of up to MaxEmails segments.
FilesWide == SeqsUpTo(MaxThreads, BlocksOf(IDs, SeqsUpTo(1, WideSegments)))
FilesDeep == {<<b>> : b \in BlocksOf({"A"}, SeqsUpTo(MaxEmails, DeepSegments))}
Files == FilesWide \cup FilesDeep
FilesRerun ==
  {<<b>> : b \in BlocksOf(IDs, {<<s>> : s \in RerunSegments})}
    \cup {<<a, b>> : a \in BlocksOf({"A"}, {<<s>> : s \in RerunSegments}),
                     b \in BlocksOf(IDs, {<<s>> : s \in RerunSegments})}

RECURSIVE RenderSegs(_)
RenderSegs(segs) ==
  IF segs = <<>> THEN <<>> ELSE EMAIL_MARK \o Head(segs) \o RenderSegs(Tail(segs))

RECURSIVE RenderBlocks(_)
RenderBlocks(blocks) ==
  IF blocks = <<>> THEN <<>>
  ELSE THREAD_MARK \o <<Head(blocks).id, NL>> \o RenderSegs(Head(blocks).segs)
         \o <<NL>> \o RenderBlocks(Tail(blocks))

\* The text of the file: a heading line, then the blocks.
Render(blocks) == <<"Email", SP, "log", NL>> \o RenderBlocks(blocks)

\* ------------------------------------------------------------------ state
VARIABLES
  file,               \* the input file, as the blocks it is written from
  store,              \* the requirement_emails collection, in insertion order
  now,                \* the clock datetime.now() reads
  run,                \* how many times main has been started
  pc,                 \* "idle", "loop", "done", "aborted"
  use_ai,             \* self.use_ai of the agent of this run
  threads,            \* the list parse_email_file returned
  log,                \* one entry per store_requirement_thread call of this run
  requirement_count,  \* the counter of process_all_requirements
  summary,            \* what the end of the run reports
  prev                \* the previous run: its mode, its log, the store it left

vars == <<file, store, now, run, pc, use_ai, threads, log, requirement_count,
          summary, prev>>

NoSummary == [processed |-> -1, stored |-> -1, skipped |-> -1, total |-> -1]
NoPrev == [completed |-> FALSE, use_ai |-> FALSE, log |-> <<>>, store |-> <<>>]

InitWith(files) ==
  /\ file \in files
  /\ store = <<>>
  /\ now = 0
  /\ run = 0
  /\ pc = "idle"
  /\ use_ai = FALSE
  /\ threads = <<>>
  /\ log = <<>>
  /\ requirement_count = 0
  /\ summary = NoSummary
  /\ prev = NoPrev

Init == InitWith(Files)
InitRerun == InitWith(FilesRerun)

\* RequirementAgent.__init__: use_ai stays set when the AI processor could be
\* constructed.
Construct(requested, aiInitOk) == requested /\ aiInitOk

\* main up to the loop of process_all_requirements: the agent is constructed
\* and the file is read and parsed.
Main(maxRuns) ==
  /\ pc = "idle"
  /\ run < maxRuns
  /\ \E requested \in BOOLEAN, aiInitOk \in BOOLEAN :
       use_ai' = Construct(requested, aiInitOk)
  /\ threads' = parse_email_file(Render(file))
  /\ log' = <<>>
  /\ requirement_count' = 0
  /\ summary' = NoSummary
  /\ run' = run + 1
  /\ pc' = "loop"
  /\ UNCHANGED <<file, store, now, prev>>

\* A counter that counts every thread.
CountAll(count, returned) == count + 1

\* if self.store_requirement_thread(thread): requirement_count += 1
Count(count, returned) == IF returned THEN count + 1 ELSE count

\* The entry the log keeps of a call.
LogEntry(thread, r) ==
  [tid |-> thread.thread_id, cls |-> r.cls, category |-> r.category,
   ext |-> r.ext, ups |-> r.ups, requirements |-> r.requirements]

\* What happens to the run when store_requirement_thread raises: nothing in
\* process_all_requirements catches it, main's except does.
AfterRaise == "aborted"

\* One iteration of the loop of process_all_requirements.
StoreThread ==
  /\ pc = "loop"
  /\ Len(log) < Len(threads)
  /\ LET thread == threads[Len(log) + 1]
     IN \E clsReply \in ClassifyReplies, extReply \in ExtractReplies, dbOk \in BOOLEAN :
          LET r == store_requirement_thread(store, use_ai, thread, clsReply,
                                            extReply, dbOk, now)
          IN /\ log' = Append(log, LogEntry(thread, r))
             /\ store' = r.collection
             /\ now' = IF r.ups = "none" THEN now ELSE now + 1
             /\ requirement_count' =
                  IF r.raised THEN requirement_count
                  ELSE Count(requirement_count, r.returned)
             /\ pc' = IF r.raised THEN AfterRaise ELSE "loop"
  /\ UNCHANGED <<file, run, use_ai, threads, summary, prev>>

\* The counts process_all_requirements prints, and the total of
\* get_requirements_summary.
Summary(nThreads, count, collection) ==
  [processed |-> nThreads, stored |-> count, skipped |-> nThreads - count,
   total |-> Len(collection)]

Finish ==
  /\ pc = "loop"
  /\ Len(log) = Len(threads)
  /\ summary' = Summary(Len(threads), requirement_count, store)
  /\ pc' = "done"
  /\ UNCHANGED <<file, store, now, run, use_ai, threads, log, requirement_count, prev>>

\* finally: agent.close(); the process ends and the store stays.
Close ==
  /\ pc \in {"done", "aborted"}
  /\ prev' = IF pc = "done"
               THEN [completed |-> TRUE, use_ai |-> use_ai, log |-> log, store |-> store]
               ELSE NoPrev
  /\ pc' = "idle"
  /\ UNCHANGED <<file, store, now, run, use_ai, threads, log, requirement_count, summary>>

Next == Main(1) \/ StoreThread \/ Finish \/ Close
Spec == Init /\ [][Next]_vars

NextRerun == Main(MaxRuns) \/ StoreThread \/ Finish \/ Close
SpecRerun == InitRerun /\ [][NextRerun]_vars

\* ------------------------------------------------------------------ claims
Last(s) == s[Len(s)]
Written(entry) == entry.ups \in {"stored", "updated"}
DocsOf(collection, tid) == {j \in 1..Len(collection) : collection[j].thread_id = tid}

\* C1: in AI mode, when the classification call fails, classify_thread
\* returns what the keyword heuristic returns for that thread, and every
\* thread of the run is still sent to the collaborator.
C1_ClassifyFallsBackToKeyword ==
  use_ai =>
    \A i \in 1..Len(log) :
      /\ log[i].cls # NotCalled
      /\ log[i].cls = APIError => log[i].category = KeywordCategory(threads[i])

\* C2: in AI mode, when the extraction call fails for a thread classified
\* 'requirement', extract_requirements returns the keyword heuristic's items
\* for that thread.
C2_ExtractFallsBackToKeyword ==
  use_ai =>
    \A i \in 1..Len(log) :
      log[i].ext = APIError =>
        log[i].requirements = _extract_requirements_basic(threads[i])

\* C3: when the agent runs in AI mode and every classification call of the
\* run fails, the threads written are exactly those the keyword heuristic
\* classifies 'requirement', and their documents say classification_method
\* 'keyword'.
C3_AllFailuresMeansKeywordRun ==
  (pc = "done" /\ use_ai /\ \A i \in 1..Len(log) : log[i].cls = APIError) =>
    /\ {log[i].tid : i \in {k \in 1..Len(log) : Written(log[k])}}
         = {threads[i].thread_id :
              i \in {k \in 1..Len(threads) : KeywordCategory(threads[k]) = REQUIREMENT}}
    /\ \A i \in 1..Len(log) :
         Written(log[i]) =>
           \A j \in DocsOf(store, log[i].tid) :
             store[j].classification_method = "keyword"

\* C4, as claimed: no upsert is issued for a thread that is not classified
\* 'requirement', and after a run the store holds no document with the
\* thread_id of a thread this run classified 'general'.
C4_GeneralNeverInStore ==
  /\ \A i \in 1..Len(log) : log[i].category # REQUIREMENT => log[i].ups = "none"
  /\ pc = "done" =>
       \A i \in 1..Len(log) :
         log[i].category # REQUIREMENT => DocsOf(store, log[i].tid) = {}

\* C4, amended: a call of store_requirement_thread whose classification is
\* not 'requirement' issues no upsert and leaves the store as it was; the
\* store changes only in calls that classified their thread 'requirement'.
C4_SkipLeavesStore ==
  [][(pc = "loop" /\ Len(log') = Len(log) + 1 /\ Last(log').category # REQUIREMENT)
       => (store' = store /\ Last(log').ups = "none")]_vars

C4_Witness ==
  /\ Len(log) >= 1
  /\ Last(log).category = GENERAL
  /\ store # <<>>
  /\ DocsOf(store, Last(log).tid) # {}

\* C5: the store holds at most one document per thread_id, and after an
\* upsert the document of that thread_id carries the fields of the thread
\* just processed.
C5_OneDocumentPerThread ==
  /\ \A i, j \in 1..Len(store) :
       store[i].thread_id = store[j].thread_id => i = j
  /\ (Len(log) >= 1 /\ Written(Last(log))) =>
       \A j \in DocsOf(store, Last(log).tid) :
         LET thread == threads[Len(log)]
         IN /\ store[j].emails = thread.emails
            /\ store[j].email_count = Len(thread.emails)
            /\ store[j].requirements = Last(log).requirements
            /\ store[j].metadata.subject = Get(thread.emails[1], "subject")
            /\ store[j].metadata.client = Get(thread.emails[1], "from")
            /\ store[j].classification_method = (IF use_ai THEN "AI" ELSE "keyword")
            /\ store[j].created_at = now - 1

C5_Witness ==
  /\ Len(log) = 2
  /\ log[1].tid = log[2].tid
  /\ log[1].ups = "stored"
  /\ log[2].ups = "updated"
  /\ threads[1].emails # threads[2].emails
  /\ Len(store) = 1

\* The answers of the collaborators in two runs are the same.
SameAnswers(a, b) ==
  /\ Len(a) = Len(b)
  /\ \A i \in 1..Len(a) : a[i].cls = b[i].cls /\ a[i].ext = b[i].ext

WithoutCreatedAt(d) == [f \in DOMAIN d \ {"created_at"} |-> d[f]]

\* C6: a second run on the unchanged file, by an agent in the same mode and
\* with the same answers of the collaborators, leaves the same number of
\* documents and the same document per thread_id, created_at aside.
C6_RerunIsIdempotent ==
  (pc = "done" /\ prev.completed /\ prev.use_ai = use_ai /\ SameAnswers(prev.log, log)) =>
    /\ Len(store) = Len(prev.store)
    /\ \A i \in 1..Len(store) :
         \E j \in 1..Len(prev.store) :
           WithoutCreatedAt(store[i]) = WithoutCreatedAt(prev.store[j])
    /\ \A j \in 1..Len(prev.store) :
         \E i \in 1..Len(store) :
           WithoutCreatedAt(store[i]) = WithoutCreatedAt(prev.store[j])

C6_Witness ==
  /\ pc = "done" /\ prev.completed /\ prev.use_ai = use_ai
  /\ SameAnswers(prev.log, log)
  /\ Len(store) = 2
  /\ \A i \in 1..Len(store) : store[i].created_at # prev.store[i].created_at

\* C7: when the upsert fails for a thread, the run goes on with the next
\* thread of the file.
C7_UpsertFailureSkipsOneThread ==
  (Len(log) >= 1 /\ Last(log).ups = "failed" /\ Len(log) < Len(threads)) => pc = "loop"

NonBlank(seg) == seg # SegBlank
HasEmail(block) == \E k \in 1..Len(block.segs) : NonBlank(block.segs[k])
ThreadIds(ts) == [i \in 1..Len(ts) |-> ts[i].thread_id]
BlockIds(blocks) == [i \in 1..Len(blocks) |-> <<blocks[i].id>>]

\* C8: every parsed thread has an email, the parsed threads are the blocks
\* of the file that have a non-blank email segment, and no stored document
\* has an empty emails list or the no-email metadata.
C8_NoEmptyThread ==
  /\ \A i \in 1..Len(threads) : threads[i].emails # <<>>
  /\ run >= 1 => ThreadIds(threads) = BlockIds(SelectSeq(file, HasEmail))
  /\ \A j \in 1..Len(store) :
       /\ store[j].emails # <<>>
       /\ store[j].email_count >= 1
       /\ store[j].metadata.client = Get(store[j].emails[1], "from")
       /\ store[j].metadata.subject = Get(store[j].emails[1], "subject")
       /\ store[j].metadata.first_date = Get(store[j].emails[1], "date")
       /\ store[j].metadata.last_date = Get(store[j].emails[Len(store[j].emails)], "date")

C8_Witness ==
  /\ Len(file) = 2
  /\ ~HasEmail(file[1])
  /\ file[1].segs # <<>>
  /\ Len(threads) = 1
  /\ Len(log) = 1
  /\ Len(store) = 1

DistinctIds(ts) ==
  \A i, j \in 1..Len(ts) : ts[i].thread_id = ts[j].thread_id => i = j

\* C9: a completed keyword-mode run over N parsed threads with distinct ids
\* and an empty store processes them in file order and reports N processed,
\* the number classified 'requirement' stored, the rest skipped, and as many
\* stored as the store has documents.
C9_SummaryCounts ==
  (pc = "done" /\ ~use_ai /\ run = 1 /\ DistinctIds(threads)) =>
    LET nReq == Cardinality({i \in 1..Len(threads) :
                               KeywordCategory(threads[i]) = REQUIREMENT})
    IN /\ [i \in 1..Len(log) |-> log[i].tid] = ThreadIds(threads)
       /\ summary.processed = Len(threads)
       /\ summary.stored = nReq
       /\ summary.skipped = summary.processed - summary.stored
       /\ summary.stored = Len(store)
       /\ summary.total = Len(store)

C9_Witness ==
  /\ pc = "done" /\ ~use_ai /\ run = 1 /\ DistinctIds(threads)
  /\ summary.processed = 2 /\ summary.stored = 1 /\ summary.skipped = 1
  /\ Len(store) = 1

\* C10: in keyword mode a thread is classified 'requirement' exactly when
\* some keyword of the vocabulary is a substring of the lower-cased
\* subject + ' ' + body of some email of it, and 'general' otherwise; so a
\* thread with 'deployment timeline' in a subject or body is 'requirement'.
C10_KeywordClassification ==
  ~use_ai =>
    \A i \in 1..Len(log) :
      LET emails == threads[i].emails
          hit == \E e \in 1..Len(emails), k \in 1..Len(requirement_keywords) :
                   Contains(Lower(GetOr(emails[e], "subject", <<>>) \o <<SP>>
                                    \o GetOr(emails[e], "body", <<>>)),
                            requirement_keywords[k])
          phrase == <<"deployment", SP, "timeline">>
          timeline == \E e \in 1..Len(emails) :
                        \/ Contains(GetOr(emails[e], "subject", <<>>), phrase)
                        \/ Contains(GetOr(emails[e], "body", <<>>), phrase)
      IN /\ log[i].category = (IF hit THEN REQUIREMENT ELSE GENERAL)
         /\ timeline => log[i].category = REQUIREMENT

C10_Witness ==
  /\ ~use_ai
  /\ Len(log) = 1
  /\ Len(threads[1].emails) = 2
  /\ ~AnyKeywordIn(requirement_keywords, EmailText(threads[1].emails[1]))
  /\ Contains(threads[1].emails[2].body, <<"deployment", SP, "timeline">>)
  /\ log[1].category = REQUIREMENT

====
